---- MODULE Spec2Model ----
(***************************************************************************)
(* A model of ruba's ingestion buffer, integer column encoding and         *)
(* per-batch query driver.                                                 *)
(*                                                                         *)
(* The module holds one specification per component:                       *)
(*   SpecBuffer   ingest::buffer::Buffer                                   *)
(*   SpecInt      columns::integers::IntegerColumn                         *)
(*   SpecQuery    engine::query::Query over one batch                      *)
(*   SpecEq       engine::vector_operator::EqualsVSU16                     *)
(*   SpecPlan     engine::query_plan::QueryPlan::create_query_plan         *)
(*   SpecKernel   LessThanVSi64, LessThanVSu8, BooleanOperator             *)
(*   SpecNames    engine::query::Query::result_column_names                *)
(*   SpecTables   scheduler::InnerRuba::ingest / create_if_empty           *)
(*   SpecSched    scheduler::InnerRuba schedule, await_task, worker_loop   *)
(*   SpecSchedLive  SpecSched with tasks that complete                     *)
(*                                                                         *)
(* TLC's integers are 32 bits wide, so i64 and u32 are modelled at the      *)
(* reduced widths I64Bits and U32Bits (u8 and u16 keep their real width);   *)
(* all arithmetic on them wraps or traps at the modelled width exactly as   *)
(* the program's does at 64 and 32 bits.                                    *)
(* Each specification leaves the variables of the other components at      *)
(* their idle values.                                                      *)
(***************************************************************************)
EXTENDS Integers, Sequences, FiniteSets, TLC

VARIABLES
    buffer,     \* Buffer.buffer : column name -> RawCol (sequence of RawVal)
    length,     \* Buffer.length
    ivalues,    \* IntegerColumn::new argument `values`
    imin,       \* IntegerColumn::new argument `min`
    imax,       \* IntegerColumn::new argument `max`
    build,      \* overflow checks of the build: "debug" panics, "release" wraps
    icol,       \* the column IntegerColumn::new returned (or its panic)
    idecoded,   \* what ColumnData::iter yielded for icol
    batch,      \* the batch a query runs on: column name -> Column
    query,      \* the Query that was run
    result,     \* what Query::run / Query::run_aggregate returned
    eq_data,    \* EqualsVSU16: the u16 codes its lhs operator yielded
    eq_rhs,     \* EqualsVSU16: rhs.cast_int_const(), the constant's code
    eq_result,  \* EqualsVSU16: the bit-vector it returned
    plan_expr,  \* create_query_plan: the expression
    plan_filter, \* create_query_plan: the ambient filter
    plan_out,   \* create_query_plan: the (plan, type) it returned, or its panic
    plan_vec,   \* the vector the prepared plan evaluated to
    kern,       \* a comparison or Boolean kernel and its operands
    kout,       \* what the kernel returned
    column_names, \* what Query::result_column_names returned
    tables,     \* InnerRuba.tables: table name -> rows of the Table
    ingesting,  \* per ingesting thread: its call stack and its calls so far
    returned,   \* rows whose InnerRuba::ingest call has returned
    idle_lock,  \* holder of the idle_queue mutex, 0 when free
    task_available, \* the bool behind the idle_queue mutex
    queue_lock, \* holder of the task_queue lock, 0 when free
    task_queue, \* InnerRuba.task_queue
    thread,     \* per scheduler thread: where it is and the task it holds
    completed,  \* tasks whose completed() is true
    handouts    \* history: how often await_task returned each task (up to MaxHandouts)

\* idecoded before ColumnData::iter ran.
NotIterated == [ok |-> FALSE, values |-> <<>>]

bufVars == <<buffer, length>>
intVars == <<ivalues, imin, imax, build, icol, idecoded>>
queryVars == <<batch, query, result>>
eqVars == <<eq_data, eq_rhs, eq_result>>
planVars == <<plan_expr, plan_filter, plan_out, plan_vec>>
kernVars == <<kern, kout>>
namesVars == <<column_names>>
tableVars == <<tables, ingesting, returned>>
schedVars ==
    <<idle_lock, task_available, queue_lock, task_queue, thread, completed, handouts>>
vars ==
    <<buffer, length, ivalues, imin, imax, build, icol, idecoded, batch, query, result,
      eq_data, eq_rhs, eq_result, plan_expr, plan_filter, plan_out, plan_vec, kern, kout,
      column_names, tables, ingesting, returned, idle_lock, task_available, queue_lock,
      task_queue, thread, completed, handouts>>

\* ------------------------------------------------------------------------
\* Generic helpers
\* ------------------------------------------------------------------------

\* All sequences over S of length lo..hi.
SeqsOf(S, lo, hi) == UNION {[1..n -> S] : n \in lo..hi}

Max2(a, b) == IF a >= b THEN a ELSE b

Min2(a, b) == IF a <= b THEN a ELSE b

\* The sequence s itself, with every element computed once: TLC otherwise
\* recomputes an element of [i \in 1..n |-> e] at each use.
Evaluated(s) == s @@ <<>>

RECURSIVE Repeat(_, _)
Repeat(x, n) == IF n <= 0 THEN <<>> ELSE <<x>> \o Repeat(x, n - 1)

\* ------------------------------------------------------------------------
\* ingest::buffer::Buffer
\* ------------------------------------------------------------------------

\* Longest column, and longest Buffer.length, the model lets a buffer reach.
MaxLen == 3

\* Longest row / longest input vector handed to one push call.
MaxBatch == 2

\* Column names used by the ingested rows.
Names == {"a", "b"}

\* RawVal, by variant: Null, Int(i64), Str(String).  The payload does not
\* influence any length, so it is left out.
RawVals == {"Null", "Int", "Str"}

\* RawCol::with_nulls(len)
with_nulls(len) == Repeat("Null", len)

\* RawCol::push_nulls(count)
push_nulls(col, count) == col \o Repeat("Null", count)

\* RawCol::push_ints(vec)
push_ints(col, n) == col \o Repeat("Int", n)

\* RawCol::push_strings(vec)
push_strings(col, n) == col \o Repeat("Str", n)

\* self.buffer.entry(name).or_insert_with(|| RawCol::with_nulls(len))
entry_or_insert(buf, name, len) ==
    IF name \in DOMAIN buf THEN buf[name] ELSE with_nulls(len)

\* buf with column `name` set to `col`.
insert(buf, name, col) ==
    [n \in DOMAIN buf \cup {name} |-> IF n = name THEN col ELSE buf[n]]

\* Buffer::extend_to_largest: pads the columns shorter than target_length.
extend_to_largest(buf, target_length) ==
    [n \in DOMAIN buf |->
        IF Len(buf[n]) < target_length
        THEN push_nulls(buf[n], target_length - Len(buf[n]))
        ELSE buf[n]]

\* The loop of Buffer::push_row over the (name, value) pairs of the row.
RECURSIVE push_row_loop(_, _, _)
push_row_loop(buf, row, len) ==
    IF row = <<>> THEN buf
    ELSE LET name == Head(row)[1]
             input_val == Head(row)[2]
             buffered_col == entry_or_insert(buf, name, len)
         IN push_row_loop(insert(buf, name, Append(buffered_col, input_val)),
                          Tail(row), len)

\* InputColumn::{Int(vec), Str(vec), Null(c)} appended to a column.
push_input_col(col, input_col) ==
    CASE input_col.t = "Int" -> push_ints(col, input_col.n)
      [] input_col.t = "Str" -> push_strings(col, input_col.n)
      [] input_col.t = "Null" -> push_nulls(col, input_col.n)

\* The loop of push_typed_cols / push_untyped_cols: `pushed[name]` is the
\* column after the input was appended.  The map's keys are distinct, so the
\* iteration order of the HashMap does not matter.
cols_after(buf, pushed) ==
    [n \in DOMAIN buf \cup DOMAIN pushed |->
        IF n \in DOMAIN pushed THEN pushed[n] ELSE buf[n]]

RECURSIVE SetMax(_)
SetMax(S) ==
    IF S = {} THEN 0
    ELSE LET x == CHOOSE y \in S : TRUE IN Max2(x, SetMax(S \ {x}))

\* new_length = max over the columns of the map of buffered_col.len(), 0 for
\* an empty map.
new_length_of(pushed) == SetMax({Len(pushed[n]) : n \in DOMAIN pushed})

\* Every column of the buffer within the model's bound.
WithinBounds(buf, len) ==
    /\ len <= MaxLen
    /\ \A n \in DOMAIN buf : Len(buf[n]) <= MaxLen

Rows == SeqsOf(Names \X RawVals, 0, MaxBatch)

InputColumns == [t : {"Int", "Str", "Null"}, n : 0..MaxBatch]

TypedMaps == UNION {[S -> InputColumns] : S \in SUBSET Names}

UntypedMaps == UNION {[S -> SeqsOf(RawVals, 0, MaxBatch)] : S \in SUBSET Names}

\* Buffer::push_row
push_row(row) ==
    LET len == length
        pushed == push_row_loop(buffer, row, len)
    IN /\ WithinBounds(extend_to_largest(pushed, len + 1), len + 1)
       /\ length' = len + 1
       /\ buffer' = extend_to_largest(pushed, len + 1)
       /\ UNCHANGED <<intVars, queryVars, eqVars, planVars, kernVars, namesVars, tableVars, schedVars>>

\* Buffer::push_typed_cols
push_typed_cols(columns) ==
    LET len == length
        pushed == [n \in DOMAIN columns |->
                     push_input_col(entry_or_insert(buffer, n, len), columns[n])]
        new_length == new_length_of(pushed)
        after == extend_to_largest(cols_after(buffer, pushed), new_length)
    IN /\ WithinBounds(after, new_length)
       /\ length' = new_length
       /\ buffer' = after
       /\ UNCHANGED <<intVars, queryVars, eqVars, planVars, kernVars, namesVars, tableVars, schedVars>>

\* Buffer::push_untyped_cols
push_untyped_cols(columns) ==
    LET len == length
        pushed == [n \in DOMAIN columns |->
                     entry_or_insert(buffer, n, len) \o columns[n]]
        new_length == new_length_of(pushed)
        after == extend_to_largest(cols_after(buffer, pushed), new_length)
    IN /\ WithinBounds(after, new_length)
       /\ length' = new_length
       /\ buffer' = after
       /\ UNCHANGED <<intVars, queryVars, eqVars, planVars, kernVars, namesVars, tableVars, schedVars>>

\* ------------------------------------------------------------------------
\* columns::integers::IntegerColumn
\* ------------------------------------------------------------------------

\* Modelled width, in bits, of i64.
I64Bits == 28

\* Modelled width, in bits, of u32.
U32Bits == 20

\* Longest `values` vector handed to IntegerColumn::new.
MaxVals == 2

U8_MAX == 255

U16_MAX == 65535

U32_MAX == 2^U32Bits - 1

I64_MAX == 2^(I64Bits - 1) - 1

I64_MIN == -(2^(I64Bits - 1))

FitsI64(x) == I64_MIN <= x /\ x <= I64_MAX

\* Two's complement wrap of a mathematical integer to i64.
WrapI64(x) == ((x - I64_MIN) % 2^I64Bits) + I64_MIN

Panic == [kind |-> "panic", values |-> <<>>, offset |-> 0]

\* The i64 operation whose mathematical result is x: traps on overflow in a
\* build with overflow checks (the panic `attempt to subtract/add with
\* overflow`: ok = FALSE), wraps otherwise.
ArithI64(x, bld) ==
    IF FitsI64(x) THEN [ok |-> TRUE, v |-> x]
    ELSE IF bld = "debug" THEN [ok |-> FALSE, v |-> 0]
    ELSE [ok |-> TRUE, v |-> WrapI64(x)]

\* T::MAX of the code type T.
MaxOf(T) ==
    CASE T = "u8" -> U8_MAX
      [] T = "u16" -> U16_MAX
      [] T = "u32" -> U32_MAX

\* <T as NumCast>::from(n: i64): Some(n) iff n is representable in T.
NumCastFrom(T, n) ==
    IF 0 <= n /\ n <= MaxOf(T) THEN [ok |-> TRUE, v |-> n]
    ELSE [ok |-> FALSE, v |-> 0]

\* T::from(v - offset).unwrap() for one value; ok = FALSE is a panic.
EncodeOne(T, v, offset, bld) ==
    LET d == ArithI64(v - offset, bld)
    IN IF ~d.ok THEN d ELSE NumCastFrom(T, d.v)

\* IntegerOffsetColumn::new that stores the values without subtracting the
\* offset.
IntegerOffsetColumn_new_NoOffset(T, values, offset, bld) ==
    LET encoded_vals == [i \in 1..Len(values) |-> EncodeOne(T, values[i], 0, bld)]
    IN IF \E i \in 1..Len(values) : ~encoded_vals[i].ok
       THEN Panic
       ELSE [kind |-> T,
             values |-> [i \in 1..Len(values) |-> encoded_vals[i].v],
             offset |-> offset]

\* IntegerOffsetColumn::<T>::new(values, offset)
IntegerOffsetColumn_new(T, values, offset, bld) ==
    LET encoded_vals == [i \in 1..Len(values) |-> EncodeOne(T, values[i], offset, bld)]
    IN IF \E i \in 1..Len(values) : ~encoded_vals[i].ok
       THEN Panic
       ELSE [kind |-> T,
             values |-> [i \in 1..Len(values) |-> encoded_vals[i].v],
             offset |-> offset]

\* IntegerColumn::new that compares the range with `<` in place of `<=`.
IntegerColumn_new_Strict(values, min, max, bld) ==
    LET range == ArithI64(max - min, bld)
    IN IF ~range.ok THEN Panic
       ELSE IF range.v < U8_MAX THEN IntegerOffsetColumn_new("u8", values, min, bld)
       ELSE IF range.v < U16_MAX THEN IntegerOffsetColumn_new("u16", values, min, bld)
       ELSE IF range.v < U32_MAX THEN IntegerOffsetColumn_new("u32", values, min, bld)
       ELSE [kind |-> "i64", values |-> values, offset |-> 0]

\* IntegerColumn::new(values, min, max)
IntegerColumn_new(values, min, max, bld) ==
    LET range == ArithI64(max - min, bld)
    IN IF ~range.ok THEN Panic
       ELSE IF range.v <= U8_MAX THEN IntegerOffsetColumn_new("u8", values, min, bld)
       ELSE IF range.v <= U16_MAX THEN IntegerOffsetColumn_new("u16", values, min, bld)
       ELSE IF range.v <= U32_MAX THEN IntegerOffsetColumn_new("u32", values, min, bld)
       ELSE [kind |-> "i64", values |-> values, offset |-> 0]

\* One item of IntegerOffsetColumn::iter: i.to_i64().unwrap() + offset.  Every
\* code of a u8/u16/u32 column is representable in i64, so to_i64 is Some.
DecodeOne(code, offset, bld) == ArithI64(code + offset, bld)

\* ColumnData::iter of IntegerColumn (raw) and of IntegerOffsetColumn: the
\* values yielded, with ok = FALSE when an item panicked.
ColumnData_iter(col, bld) ==
    IF col.kind = "i64"
    THEN [ok |-> TRUE, values |-> col.values]
    ELSE LET items == [i \in 1..Len(col.values) |->
                         DecodeOne(col.values[i], col.offset, bld)]
         IN [ok |-> \A i \in 1..Len(items) : items[i].ok,
             values |-> [i \in 1..Len(items) |-> items[i].v]]

\* Values around every threshold of the width selection and at both ends of
\* i64.
IntSamples ==
    {I64_MIN, I64_MIN + 1, -1, 0, 1, U8_MAX, U8_MAX + 1, U16_MAX, U16_MAX + 1,
     U32_MAX, U32_MAX + 1, I64_MAX - 1, I64_MAX}

RECURSIVE SeqMin(_)
SeqMin(s) == IF Len(s) = 1 THEN s[1] ELSE Min2(s[1], SeqMin(Tail(s)))

RECURSIVE SeqMax(_)
SeqMax(s) == IF Len(s) = 1 THEN s[1] ELSE Max2(s[1], SeqMax(Tail(s)))

\* ------------------------------------------------------------------------
\* Values, columns, filters and types the query engine works on
\* ------------------------------------------------------------------------

\* RawVal::Int(i), RawVal::Str(s), RawVal::Null
IntVal(i) == [t |-> "Int", i |-> i, s |-> ""]

StrVal(s) == [t |-> "Str", i |-> 0, s |-> s]

NullVal == [t |-> "Null", i |-> 0, s |-> ""]

\* Filter::None, Filter::BitVec(Rc<BitVec>), Filter::Indices(Rc<Vec<usize>>).
\* Row indices are 0-based, as in the program.
FilterNone == [kind |-> "None", bits |-> <<>>, idx |-> <<>>]

FilterBitVec(b) == [kind |-> "BitVec", bits |-> b, idx |-> <<>>]

FilterIndices(ix) == [kind |-> "Indices", bits |-> <<>>, idx |-> ix]

\* The codebook of a string-dictionary column: the distinct strings in
\* first-seen order.
RECURSIVE Codebook(_)
Codebook(strs) ==
    IF strs = <<>> THEN <<>>
    ELSE LET rest == Codebook(SubSeq(strs, 1, Len(strs) - 1))
             last == strs[Len(strs)]
         IN IF \E i \in 1..Len(rest) : rest[i] = last THEN rest ELSE Append(rest, last)

\* The code of string s in codebook dict (codes count from 0).
CodeOf(dict, s) == (CHOOSE i \in 1..Len(dict) : dict[i] = s) - 1

\* A frozen offset-integer (or raw i64) column holding `values`.
IntColumnOf(values) ==
    LET c == IntegerColumn_new(values, SeqMin(values), SeqMax(values), "release")
    IN [basic |-> "Integer", enc |-> c.kind, codes |-> c.values,
        offset |-> c.offset, dict |-> <<>>]

\* A frozen string-dictionary column holding `strs`; the codes of a codebook
\* of at most 256 strings are u8.
StrColumnOf(strs) ==
    LET dict == Codebook(strs)
    IN [basic |-> "String", enc |-> "u8",
        codes |-> [i \in 1..Len(strs) |-> CodeOf(dict, strs[i])],
        offset |-> 0, dict |-> dict]

\* ColumnData::to_codec: Some for a compactly encoded column, None for raw i64.
has_codec(col) == col.enc # "i64"

\* The decoded value of one code of the column.
decode_code(col, code) ==
    IF col.basic = "String" THEN StrVal(col.dict[code + 1])
    ELSE IF has_codec(col) THEN IntVal(code + col.offset)
    ELSE IntVal(code)

\* ColumnData::collect_decoded, as a sequence of RawVal.
collect_decoded(col) == [i \in 1..Len(col.codes) |-> decode_code(col, col.codes[i])]

\* Number of codes of the column's codec: the codebook size of a dictionary,
\* the size of the code range of an offset-integer column.
cardinality(col) ==
    IF col.basic = "String" THEN Len(col.dict)
    ELSE SeqMax(col.codes) + 1

\* Type descriptor {decoded basic type, encoding, codec back-reference,
\* is_scalar}.  The codec is referred to by the name of its column, "" for none.
Type_new(basic, enc, codec, is_scalar) ==
    [decoded |-> basic, enc |-> enc, codec |-> codec, is_scalar |-> is_scalar]

\* The encoding of an unencoded vector of the basic type.
BasicEncoding(basic) ==
    CASE basic = "Integer" -> "i64"
      [] basic = "String" -> "str"
      [] basic = "Boolean" -> "bitvec"
      [] OTHER -> "null"

\* ColumnData::full_type
full_type(name, col) ==
    IF has_codec(col) THEN Type_new(col.basic, col.enc, name, FALSE)
    ELSE Type_new(col.basic, BasicEncoding(col.basic), "", FALSE)

\* Type::decoded
Type_decoded(t) == Type_new(t.decoded, BasicEncoding(t.decoded), "", t.is_scalar)

\* Type::scalar(basic)
Type_scalar(basic) == Type_new(basic, BasicEncoding(basic), "", TRUE)

\* Type::bit_vec() and Type::new(BasicType::Boolean, None)
Type_bit_vec == Type_new("Boolean", "bitvec", "", FALSE)

\* Type::is_encoded
is_encoded(t) == t.codec # ""

\* Type::encoding_type
encoding_type(t) == t.enc

\* RawVal::get_type
get_type(v) ==
    CASE v.t = "Int" -> "Integer"
      [] v.t = "Str" -> "String"
      [] OTHER -> "Null"

\* ------------------------------------------------------------------------
\* engine::query_plan::QueryPlan::create_query_plan
\* ------------------------------------------------------------------------

\* Expr::ColName, Expr::Const, Expr::Func
ColName(name) == [e |-> "ColName", name |-> name]

Const(v) == [e |-> "Const", val |-> v]

Func(f, lhs, rhs) == [e |-> "Func", f |-> f, lhs |-> lhs, rhs |-> rhs]

\* A panic raised while the plan is built (panic!, unimplemented!, assert!).
PlanPanic(msg) ==
    [plan |-> [node |-> "Panic", msg |-> msg], type |-> Type_new("Null", "null", "", FALSE)]

IsPanic(r) == r.plan.node = "Panic"

\* The plan of a column reference that ignores the ambient filter.
ColumnPlan_Unfiltered(name, col, filter) ==
    LET t == full_type(name, col)
    IN IF ~has_codec(col)
       THEN [plan |-> [node |-> "GetDecode", col |-> name], type |-> Type_decoded(t)]
       ELSE [plan |-> [node |-> "GetEncoded", col |-> name], type |-> t]

\* The plan of a column reference, by (codec present?, ambient filter).
ColumnPlan(name, col, filter) ==
    LET t == full_type(name, col)
    IN IF ~has_codec(col)
       THEN CASE filter.kind = "None" ->
                   [plan |-> [node |-> "GetDecode", col |-> name], type |-> Type_decoded(t)]
              [] filter.kind = "BitVec" ->
                   [plan |-> [node |-> "FilterDecode", col |-> name, filter |-> filter],
                    type |-> Type_decoded(t)]
              [] filter.kind = "Indices" ->
                   [plan |-> [node |-> "IndexDecode", col |-> name, filter |-> filter],
                    type |-> Type_decoded(t)]
       ELSE CASE filter.kind = "None" ->
                   [plan |-> [node |-> "GetEncoded", col |-> name], type |-> t]
              [] filter.kind = "BitVec" ->
                   [plan |-> [node |-> "FilterEncoded", col |-> name, filter |-> filter],
                    type |-> t]
              [] filter.kind = "Indices" ->
                   [plan |-> [node |-> "IndexEncoded", col |-> name, filter |-> filter],
                    type |-> t]

\* The comparison node with the constant wrapped whether or not the
\* left-hand side is encoded.
ComparisonPlan_AlwaysEncode(node, encode, l, r) ==
    IF r.type.is_scalar
    THEN [plan |-> [node |-> node, t |-> encoding_type(l.type), lhs |-> l.plan,
                    rhs |-> [node |-> encode, plan |-> r.plan, codec |-> l.type.codec]],
          type |-> Type_bit_vec]
    ELSE PlanPanic("not yet implemented")

\* The comparison node of `<` / `=` for a scalar right-hand side: the constant
\* is wrapped in Encode*Constant with the codec of an encoded left-hand side.
ComparisonPlan(node, encode, l, r) ==
    IF r.type.is_scalar
    THEN IF is_encoded(l.type)
         THEN [plan |-> [node |-> node, t |-> encoding_type(l.type), lhs |-> l.plan,
                         rhs |-> [node |-> encode, plan |-> r.plan, codec |-> l.type.codec]],
               type |-> Type_bit_vec]
         ELSE [plan |-> [node |-> node, t |-> encoding_type(l.type), lhs |-> l.plan,
                         rhs |-> r.plan],
               type |-> Type_bit_vec]
    ELSE PlanPanic("not yet implemented")

RECURSIVE create_query_plan(_, _, _)
create_query_plan(expr, cols, filter) ==
    IF expr.e = "ColName"
    THEN IF expr.name \in DOMAIN cols
         THEN ColumnPlan(expr.name, cols[expr.name], filter)
         ELSE PlanPanic("Not implemented")
    ELSE IF expr.e = "Const"
    THEN [plan |-> [node |-> "Constant", val |-> expr.val],
          type |-> Type_scalar(get_type(expr.val))]
    ELSE IF expr.e = "Func"
    THEN LET l == create_query_plan(expr.lhs, cols, filter)
             r == create_query_plan(expr.rhs, cols, filter)
         IN IF IsPanic(l) THEN l
            ELSE IF IsPanic(r) THEN r
            ELSE IF expr.f = "LT"
            THEN IF l.type.decoded = "Integer" /\ r.type.decoded = "Integer"
                 THEN ComparisonPlan("LessThanVS", "EncodeIntConstant", l, r)
                 ELSE PlanPanic("type error: <")
            ELSE IF expr.f = "Equals"
            THEN IF l.type.decoded = "String" /\ r.type.decoded = "String"
                 THEN ComparisonPlan("EqualsVS", "EncodeStrConstant", l, r)
                 ELSE IF l.type.decoded = "Integer" /\ r.type.decoded = "Integer"
                 THEN ComparisonPlan("EqualsVS", "EncodeIntConstant", l, r)
                 ELSE PlanPanic("type error: =")
            ELSE IF expr.f \in {"Or", "And"}
            THEN IF l.type.decoded = "Boolean" /\ r.type.decoded = "Boolean"
                 THEN [plan |-> [node |-> expr.f, lhs |-> l.plan, rhs |-> r.plan],
                       type |-> Type_bit_vec]
                 ELSE PlanPanic("assertion failed")
            ELSE PlanPanic("compile_vec() not implemented")
    ELSE PlanPanic("compile_vec() not implemented")

\* ------------------------------------------------------------------------
\* engine::typed_vec::TypedVec and the vector operators
\* ------------------------------------------------------------------------

\* A TypedVec: its encoding tag, its elements and, for a code stream, the
\* column whose codec decodes it.  Tags: "u8" "u16" "u32" code streams or
\* encoded integers, "i64" integers, "str" strings, "bitvec" TypedVec::Boolean,
\* "const" TypedVec::Constant(RawVal), "panic" an operator that panicked.
Vec(t, data, codec) == [t |-> t, data |-> data, codec |-> codec]

ConstVec(v) == Vec("const", <<v>>, "")

PanicVec == Vec("panic", <<>>, "")

\* The elements of s whose bit is set, in row order.
RECURSIVE SelectBits(_, _)
SelectBits(s, bits) ==
    IF s = <<>> \/ bits = <<>> THEN <<>>
    ELSE (IF Head(bits) THEN <<Head(s)>> ELSE <<>>) \o SelectBits(Tail(s), Tail(bits))

\* The positions (0-based) of the set bits:
\* vec.iter().enumerate().filter(|x| x.1).map(|x| x.0).collect()
SetBitPositions(bits) == SelectBits([i \in 1..Len(bits) |-> i - 1], bits)

PopCount(bits) == Len(SetBitPositions(bits))

InRange(idx, n) == \A k \in 1..Len(idx) : idx[k] < n

\* The elements of s at the given 0-based positions, in the given order.
\* The caller checks InRange: an index past the end is a panic.
AtIndices(s, idx) == Evaluated([k \in 1..Len(idx) |-> s[idx[k] + 1]])

\* The decoded elements of a column: integers of an integer column, strings
\* of a string column.
DecodedData(col) ==
    [i \in 1..Len(col.codes) |->
        IF col.basic = "String" THEN decode_code(col, col.codes[i]).s
        ELSE decode_code(col, col.codes[i]).i]

\* TypedVec::decode: a code stream through its codec, anything else as it is.
decode(v, cols) ==
    IF v.codec = "" THEN v
    ELSE LET col == cols[v.codec]
         IN Vec(BasicEncoding(col.basic),
                [i \in 1..Len(v.data) |->
                    IF col.basic = "String" THEN decode_code(col, v.data[i]).s
                    ELSE decode_code(col, v.data[i]).i],
                "")

\* The in-band code an out-of-range or unknown constant is encoded as.
SentinelCode == 0 - 1

\* ColumnCodec::encode_str
encode_str(col, str) ==
    IF \E i \in 1..Len(col.dict) : col.dict[i] = str
    THEN IntVal(CodeOf(col.dict, str))
    ELSE IntVal(SentinelCode)

\* ColumnCodec::encode_int
encode_int(col, i) ==
    IF 0 <= i - col.offset /\ i - col.offset <= MaxOf(col.enc)
    THEN IntVal(i - col.offset)
    ELSE IntVal(SentinelCode)

\* `x as u8`, `x as u16`, `x as u32` of an i64: the low bits.
AsUnsigned(T, x) == x % (MaxOf(T) + 1)

\* LessThanVSi64::execute
LessThanVSi64_execute(data, rhs) == [i \in 1..Len(data) |-> data[i] < rhs]

\* LessThanVSu8::execute with `<=` in place of `<`.
LessThanVSu8_execute_LessEqual(data, rhs) == [i \in 1..Len(data) |-> data[i] <= rhs]

\* LessThanVSu8::execute
LessThanVSu8_execute(data, rhs) == [i \in 1..Len(data) |-> data[i] < rhs]

\* EqualsVSString::execute
EqualsVSString_execute(data, str) == [i \in 1..Len(data) |-> data[i] = str]

\* EqualsVSU16::execute; rhs is rhs.cast_int_const(), an i64
EqualsVSU16_execute(data, rhs) ==
    LET s16 == AsUnsigned("u16", rhs)
    IN [i \in 1..Len(data) |-> data[i] = s16]

\* VecOperator::less_than_vs(left_type, lhs, rhs): the kernel of the width.
less_than_vs(t, lhs, rhs) ==
    IF lhs.t = "panic" \/ rhs.t = "panic" THEN PanicVec
    ELSE IF rhs.t # "const" \/ rhs.data[1].t # "Int" \/ lhs.t # t THEN PanicVec
    ELSE IF t = "i64" THEN Vec("bitvec", LessThanVSi64_execute(lhs.data, rhs.data[1].i), "")
    ELSE IF t \in {"u8", "u16", "u32"}
    THEN Vec("bitvec", LessThanVSu8_execute(lhs.data, AsUnsigned(t, rhs.data[1].i)), "")
    ELSE PanicVec

\* VecOperator::equals_vs(left_type, lhs, rhs): the kernel of the width.
equals_vs(t, lhs, rhs) ==
    IF lhs.t = "panic" \/ rhs.t = "panic" THEN PanicVec
    ELSE IF rhs.t # "const" \/ lhs.t # t THEN PanicVec
    ELSE IF t = "str"
    THEN IF rhs.data[1].t # "Str" THEN PanicVec
         ELSE Vec("bitvec", EqualsVSString_execute(lhs.data, rhs.data[1].s), "")
    ELSE IF rhs.data[1].t # "Int" THEN PanicVec
    ELSE IF t = "u16" THEN Vec("bitvec", EqualsVSU16_execute(lhs.data, rhs.data[1].i), "")
    ELSE IF t \in {"u8", "u32"}
    THEN Vec("bitvec", [i \in 1..Len(lhs.data) |-> lhs.data[i] = AsUnsigned(t, rhs.data[1].i)], "")
    ELSE Vec("bitvec", [i \in 1..Len(lhs.data) |-> lhs.data[i] = rhs.data[1].i], "")

\* BooleanOperator::execute evaluating lhs.union(rhs) for either operator.
BooleanOperator_execute_AlwaysOr(op, lhs, rhs) ==
    IF lhs.t # "bitvec" \/ rhs.t # "bitvec" THEN PanicVec
    ELSE IF Len(lhs.data) # Len(rhs.data) THEN PanicVec
    ELSE Vec("bitvec", [i \in 1..Len(lhs.data) |-> lhs.data[i] \/ rhs.data[i]], "")

\* BooleanOperator::execute: lhs.union(rhs) / lhs.intersect(rhs) of bit_vec,
\* which panic on bit-vectors of different length.
BooleanOperator_execute(op, lhs, rhs) ==
    IF lhs.t # "bitvec" \/ rhs.t # "bitvec" THEN PanicVec
    ELSE IF Len(lhs.data) # Len(rhs.data) THEN PanicVec
    ELSE Vec("bitvec",
             [i \in 1..Len(lhs.data) |->
                 IF op = "Or" THEN lhs.data[i] \/ rhs.data[i]
                 ELSE lhs.data[i] /\ rhs.data[i]],
             "")

\* query_plan::prepare(plan).execute(): the operator tree of the plan, run.
RECURSIVE execute(_, _)
execute(plan, cols) ==
    CASE plan.node = "GetDecode" ->
            Vec(BasicEncoding(cols[plan.col].basic), DecodedData(cols[plan.col]), "")
      [] plan.node = "FilterDecode" ->
            Vec(BasicEncoding(cols[plan.col].basic),
                SelectBits(DecodedData(cols[plan.col]), plan.filter.bits), "")
      [] plan.node = "IndexDecode" ->
            IF InRange(plan.filter.idx, Len(cols[plan.col].codes))
            THEN Vec(BasicEncoding(cols[plan.col].basic),
                     AtIndices(DecodedData(cols[plan.col]), plan.filter.idx), "")
            ELSE PanicVec
      [] plan.node = "GetEncoded" ->
            Vec(cols[plan.col].enc, cols[plan.col].codes, plan.col)
      [] plan.node = "FilterEncoded" ->
            Vec(cols[plan.col].enc, SelectBits(cols[plan.col].codes, plan.filter.bits),
                plan.col)
      [] plan.node = "IndexEncoded" ->
            IF InRange(plan.filter.idx, Len(cols[plan.col].codes))
            THEN Vec(cols[plan.col].enc, AtIndices(cols[plan.col].codes, plan.filter.idx),
                     plan.col)
            ELSE PanicVec
      [] plan.node = "Constant" -> ConstVec(plan.val)
      [] plan.node = "Decode" -> decode(execute(plan.plan, cols), cols)
      [] plan.node = "EncodeStrConstant" ->
            LET c == execute(plan.plan, cols)
            IN IF c.t = "const" /\ c.data[1].t = "Str"
               THEN ConstVec(encode_str(cols[plan.codec], c.data[1].s))
               ELSE PanicVec
      [] plan.node = "EncodeIntConstant" ->
            LET c == execute(plan.plan, cols)
            IN IF c.t = "const" /\ c.data[1].t = "Int"
               THEN ConstVec(encode_int(cols[plan.codec], c.data[1].i))
               ELSE PanicVec
      [] plan.node = "LessThanVS" ->
            less_than_vs(plan.t, execute(plan.lhs, cols), execute(plan.rhs, cols))
      [] plan.node = "EqualsVS" ->
            equals_vs(plan.t, execute(plan.lhs, cols), execute(plan.rhs, cols))
      [] plan.node \in {"Or", "And"} ->
            BooleanOperator_execute(plan.node, execute(plan.lhs, cols),
                                    execute(plan.rhs, cols))
      [] OTHER -> PanicVec

\* ------------------------------------------------------------------------
\* Sorting of index lists (TypedVec::order_preserving, sort_indices_asc/desc)
\* ------------------------------------------------------------------------

\* The strings of the model's tables, in lexicographic order.
StrOrder == <<"a", "b">>

\* The sort key of an element of a vector with tag t: strings by their
\* lexicographic rank, integers and codes by value.
RankOf(t, x) == IF t = "str" THEN CHOOSE r \in 1..Len(StrOrder) : StrOrder[r] = x ELSE x

\* TypedVec::order_preserving: offset-integer codes keep the order of the
\* values; dictionary codes (first-seen order) do not, and are decoded.
order_preserving(v, cols) ==
    IF v.codec # "" /\ cols[v.codec].basic = "String" THEN decode(v, cols) ELSE v

\* The index list in ascending (descending) order of keys[index], equal keys
\* in their order in idx: the element at position k of idx moves behind
\* every element that comes before it.
SortStable(idx, keys, desc) ==
    LET n == Len(idx)
        Before(j, k) ==
            \/ IF desc THEN keys[idx[j] + 1] > keys[idx[k] + 1]
                       ELSE keys[idx[j] + 1] < keys[idx[k] + 1]
            \/ keys[idx[j] + 1] = keys[idx[k] + 1] /\ j < k
        pos == Evaluated([k \in 1..n |-> Cardinality({j \in 1..n : Before(j, k)}) + 1])
    IN Evaluated([p \in 1..n |-> idx[CHOOSE k \in 1..n : pos[k] = p]])

\* TypedVec::sort_indices_asc / sort_indices_desc: indices sorted by
\* self[index].  A list of fewer than two indices is returned untouched; any
\* other list reads self[index] for every index, and an index past the end
\* panics.
sort_indices(v, indices, desc) ==
    IF Len(indices) < 2 THEN [ok |-> TRUE, idx |-> indices]
    ELSE IF ~InRange(indices, Len(v.data)) THEN [ok |-> FALSE, idx |-> <<>>]
    ELSE [ok |-> TRUE,
          idx |-> SortStable(indices, [i \in 1..Len(v.data) |-> RankOf(v.t, v.data[i])], desc)]

\* Vec::truncate(n)
truncate(s, n) == SubSeq(s, 1, Min2(Len(s), n))

\* ------------------------------------------------------------------------
\* engine::query::Query
\* ------------------------------------------------------------------------

\* What a run of the query left behind: status "ok" with the BatchResult
\* (select, group_by), or "panic"; and, for inspection, the Filter the filter
\* phase produced, the index list handed to the sort, the length of the
\* vector it was sorted against and the index list of the Filter::Indices the
\* projection ran under.
NoResult ==
    [status |-> "none", select |-> <<>>, group_by |-> <<>>, filter |-> FilterNone,
     sort_indices |-> <<>>, sort_len |-> 0, indices |-> <<>>]

PanicResult(filter) ==
    [status |-> "panic", select |-> <<>>, group_by |-> <<>>, filter |-> filter,
     sort_indices |-> <<>>, sort_len |-> 0, indices |-> <<>>]

\* match compiled_filter.execute() { TypedVec::Boolean(b) => Filter::BitVec(b),
\*                                   _ => Filter::None }
filter_of(v) == IF v.t = "bitvec" THEN FilterBitVec(v.data) ELSE FilterNone

\* The projection loop of Query::run: every select expression planned under
\* the filter, executed and decoded.
project(select, cols, filter) ==
    [k \in 1..Len(select) |->
        LET sp == create_query_plan(select[k], cols, filter)
        IN IF IsPanic(sp) THEN PanicVec ELSE decode(execute(sp.plan, cols), cols)]

\* (self.limit.limit + self.limit.offset) as usize without the offset.
sort_limit_NoOffset(limit) == limit.limit

\* (self.limit.limit + self.limit.offset) as usize
sort_limit(limit) == limit.limit + limit.offset

\* Query::run
Query_run(q, cols) ==
    LET fp == create_query_plan(q.filter, cols, FilterNone)
        fv == execute(fp.plan, cols)
        filter0 == filter_of(fv)
        op == create_query_plan(q.select[q.order_by_index + 1], cols, filter0)
        sort_column == order_preserving(execute(op.plan, cols), cols)
        indices0 == IF filter0.kind = "BitVec" THEN SetBitPositions(filter0.bits)
                    ELSE [i \in 1..Len(sort_column.data) |-> i - 1]
        sorted == sort_indices(sort_column, indices0, q.order_desc)
        filter1 == IF q.order_by_index >= 0
                   THEN FilterIndices(truncate(sorted.idx, sort_limit(q.limit)))
                   ELSE filter0
        projected == project(q.select, cols, filter1)
    IN IF IsPanic(fp) \/ fv.t = "panic" THEN PanicResult(FilterNone)
       ELSE IF q.order_by_index >= 0 /\ (IsPanic(op) \/ sort_column.t = "panic")
       THEN PanicResult(filter0)
       ELSE IF q.order_by_index >= 0 /\ ~sorted.ok
       THEN [status |-> "panic", select |-> <<>>, group_by |-> <<>>, filter |-> filter0,
             sort_indices |-> indices0, sort_len |-> Len(sort_column.data),
             indices |-> <<>>]
       ELSE IF \E k \in 1..Len(projected) : projected[k].t = "panic"
       THEN PanicResult(filter0)
       ELSE [status |-> "ok", select |-> projected, group_by |-> <<>>, filter |-> filter0,
             sort_indices |-> IF q.order_by_index >= 0 THEN indices0 ELSE <<>>,
             sort_len |-> IF q.order_by_index >= 0 THEN Len(sort_column.data) ELSE 0,
             indices |-> filter1.idx]

\* QueryPlan::compile_grouping_key: the plan of the single grouping expression,
\* with the cardinality of its codec (0 when it has none).
compile_grouping_key(exprs, cols, filter) ==
    IF Len(exprs) # 1 THEN [gk |-> PlanPanic("assertion failed"), max_cardinality |-> 0]
    ELSE LET gk == create_query_plan(exprs[1], cols, filter)
         IN [gk |-> gk,
             max_cardinality |-> IF ~IsPanic(gk) /\ is_encoded(gk.type)
                                 THEN cardinality(cols[gk.type.codec]) ELSE 0]

\* aggregation_operator::grouping: for a u8/u16 code stream the codes are the
\* group ids; max_index is the largest code of the codec and groups holds
\* every code 0..=max_index.
grouping(grouping_key, max_cardinality) ==
    [grouping |-> grouping_key,
     max_index |-> max_cardinality - 1,
     groups |-> Vec(grouping_key.t, [g \in 1..max_cardinality |-> g - 1], grouping_key.codec)]

\* VecCount::execute: an accumulator per group id 0..=max_index, incremented
\* once for every row of the grouping vector.
VecCount_execute(grouping_data, max_index) ==
    Evaluated([g \in 1..(max_index + 1) |->
        Cardinality({i \in 1..Len(grouping_data) : grouping_data[i] = g - 1})])

\* query_plan::prepare_aggregation(...).execute()
prepare_aggregation(plan, grp, max_index, aggregator) ==
    IF aggregator = "Count" /\ plan.node = "Constant" /\ plan.val.t = "Int"
    THEN IF grp.t \in {"u8", "u16"}
         THEN Vec("i64", VecCount_execute(grp.data, max_index), "")
         ELSE PanicVec
    ELSE PanicVec

\* TypedVec::index_decode(indices): decoded, then permuted.
index_decode(v, indices, cols) ==
    LET d == decode(v, cols)
    IN IF v.t = "panic" \/ ~InRange(indices, Len(d.data)) THEN PanicVec
       ELSE Vec(d.t, AtIndices(d.data, indices), "")

\* The aggregate loop of Query::run_aggregate: the aggregation planned with
\* the query's filter, run over the grouping and permuted by the group order.
aggregate_loop(aggregate, cols, filter, grp, max_index, grouping_sort_indices) ==
    [k \in 1..Len(aggregate) |->
        LET ap == create_query_plan(aggregate[k].expr, cols, filter)
        IN IF IsPanic(ap) THEN PanicVec
           ELSE index_decode(prepare_aggregation(ap.plan, grp, max_index, aggregate[k].agg),
                             grouping_sort_indices, cols)]

\* The grouping key planned without the query's filter.
grouping_filter_None(filter) == FilterNone

\* The filter the grouping key is planned with in Query::run_aggregate.
grouping_filter(filter) == filter

\* Query::run_aggregate
Query_run_aggregate(q, cols) ==
    LET fp == create_query_plan(q.filter, cols, FilterNone)
        fv == execute(fp.plan, cols)
        filter == filter_of(fv)
        cgk == compile_grouping_key(q.select, cols, grouping_filter(filter))
        grouping_key == execute(cgk.gk.plan, cols)
        g == grouping(grouping_key, cgk.max_cardinality)
        gsorted == sort_indices(g.groups, [i \in 1..Len(g.groups.data) |-> i - 1], FALSE)
        aggregated == aggregate_loop(q.aggregate, cols, filter, g.grouping, g.max_index,
                                 gsorted.idx)
        grouping_columns == <<index_decode(g.groups, gsorted.idx, cols)>>
    IN IF IsPanic(fp) \/ fv.t = "panic" THEN PanicResult(FilterNone)
       ELSE IF IsPanic(cgk.gk) \/ grouping_key.t = "panic" \/ ~gsorted.ok
       THEN PanicResult(filter)
       ELSE IF \E k \in 1..Len(aggregated) : aggregated[k].t = "panic"
       THEN PanicResult(filter)
       ELSE IF grouping_columns[1].t = "panic" THEN PanicResult(filter)
       ELSE [status |-> "ok", select |-> aggregated, group_by |-> grouping_columns,
             filter |-> filter, sort_indices |-> gsorted.idx,
             sort_len |-> Len(g.groups.data), indices |-> <<>>]

\* ------------------------------------------------------------------------
\* The query driver over one batch
\* ------------------------------------------------------------------------

\* Most rows of the batch.
MaxRows == 3

\* Rows (num, name) the batch is made of.
RowSamples == {<<0, "b">>, <<1, "a">>, <<1, "b">>, <<2, "a">>}

\* Rows whose num values are more than u8::MAX apart: a u16 column.
WideRows == {<<<<0, "b">>, <<300, "a">>>>, <<<<300, "b">>, <<1, "a">>, <<300, "a">>>>}

\* The batch of the given rows: column num offset-encoded, column name
\* dictionary-encoded.
BatchOf(rows) ==
    [n \in {"num", "name"} |->
        IF n = "num" THEN IntColumnOf([i \in 1..Len(rows) |-> rows[i][1]])
        ELSE StrColumnOf([i \in 1..Len(rows) |-> rows[i][2]])]

Batches == {BatchOf(rows) : rows \in SeqsOf(RowSamples, 1, MaxRows) \cup WideRows}

\* WHERE clauses: none (the parser's constant), two predicates, their
\* conjunction, and a bare integer column.
NoWhere == Const(IntVal(1))

NameIsA == Func("Equals", ColName("name"), Const(StrVal("a")))

NumLessThan1 == Func("LT", ColName("num"), Const(IntVal(1)))

FilterSamples ==
    {NoWhere, NameIsA, NumLessThan1, Func("And", NameIsA, NumLessThan1), ColName("num")}

LimitSamples ==
    {[limit |-> 1, offset |-> 0], [limit |-> 1, offset |-> 1], [limit |-> 100, offset |-> 0]}

SelectSamples == {<<ColName("num")>>, <<ColName("name"), ColName("num")>>}

\* Queries for Query::run: order_by_index -1 is None.
RunQueries ==
    {[select |-> sel, filter |-> f, aggregate |-> <<>>, order_by_index |-> ob,
      order_desc |-> d, limit |-> l] :
        sel \in SelectSamples, f \in FilterSamples, ob \in -1..1, d \in BOOLEAN,
        l \in LimitSamples}

\* Queries for Query::run_aggregate: one grouping column, one aggregator.
AggQueries ==
    {[select |-> <<ColName(c)>>, filter |-> f,
      aggregate |-> <<a>>, order_by_index |-> -1,
      order_desc |-> FALSE, limit |-> [limit |-> 100, offset |-> 0]] :
        c \in {"num", "name"}, f \in FilterSamples,
        a \in {[agg |-> "Count", expr |-> Const(IntVal(1))],
               [agg |-> "Sum", expr |-> ColName("num")]}}

NoQuery ==
    [select |-> <<>>, filter |-> NoWhere, aggregate |-> <<>>, order_by_index |-> -1,
     order_desc |-> FALSE, limit |-> [limit |-> 0, offset |-> 0]]

\* Idle values of the integer-column variables.
IntIdle ==
    /\ ivalues = <<>>
    /\ imin = 0
    /\ imax = 0
    /\ build = "release"
    /\ icol = [kind |-> "none", values |-> <<>>, offset |-> 0]
    /\ idecoded = NotIterated

\* Idle values of the buffer variables.
BufIdle == buffer = <<>> /\ length = 0

\* eq_result before EqualsVSU16 ran.
NotExecuted == <<"none">>

\* Idle values of the EqualsVSU16 variables.
EqIdle ==
    /\ eq_data = <<>>
    /\ eq_rhs = 0
    /\ eq_result = NotExecuted

\* Idle values of the table variables.
TablesIdle ==
    /\ tables = <<>>
    /\ ingesting = <<>>
    /\ returned = {}

\* Idle values of the scheduler variables.
SchedIdle ==
    /\ idle_lock = 0
    /\ task_available = FALSE
    /\ queue_lock = 0
    /\ task_queue = <<>>
    /\ thread = <<>>
    /\ completed = {}
    /\ handouts = <<>>

\* column_names before Query::result_column_names was called.
NotNamed == [done |-> FALSE, names |-> <<>>]

\* Idle value of the column-names variable.
NamesIdle == column_names = NotNamed

\* A kernel with its operands: the vector a and the scalar rhs of a
\* comparison, the bit-vectors a, b and c of Boolean operators.
Kernel(op, a, b, c, rhs) == [op |-> op, a |-> a, b |-> b, c |-> c, rhs |-> rhs]

\* kout before the kernel ran.
NoOutput == [done |-> FALSE, bits |-> <<>>, ba |-> <<>>, ab_c |-> <<>>, a_bc |-> <<>>]

\* Idle values of the kernel variables.
KernIdle ==
    /\ kern = Kernel("none", <<>>, <<>>, <<>>, 0)
    /\ kout = NoOutput

\* plan_out before create_query_plan was called.
NoPlan == [plan |-> [node |-> "None"], type |-> Type_new("Null", "null", "", FALSE)]

\* plan_vec before the plan was executed.
NotRun == Vec("none", <<>>, "")

\* Idle values of the plan variables.
PlanIdle ==
    /\ plan_expr = Const(NullVal)
    /\ plan_filter = FilterNone
    /\ plan_out = NoPlan
    /\ plan_vec = NotRun

\* Idle values of the query variables.
QueryIdle ==
    /\ batch = <<>>
    /\ query = NoQuery
    /\ result = NoResult

InitQuery ==
    /\ BufIdle
    /\ IntIdle
    /\ EqIdle
    /\ PlanIdle
    /\ KernIdle
    /\ NamesIdle
    /\ TablesIdle
    /\ SchedIdle
    /\ batch \in Batches
    /\ query = NoQuery
    /\ result = NoResult

Run ==
    /\ result.status = "none"
    /\ \E q \in RunQueries :
          /\ q.order_by_index < Len(q.select)
          /\ q.order_by_index < 0 => ~q.order_desc
          /\ query' = q
          /\ result' = Query_run(q, batch)
    /\ UNCHANGED <<batch, bufVars, intVars, eqVars, planVars, kernVars, namesVars, tableVars, schedVars>>

RunAggregate ==
    /\ result.status = "none"
    /\ \E q \in AggQueries :
          /\ query' = q
          /\ result' = Query_run_aggregate(q, batch)
    /\ UNCHANGED <<batch, bufVars, intVars, eqVars, planVars, kernVars, namesVars, tableVars, schedVars>>

NextQuery == Run \/ RunAggregate

SpecQuery == InitQuery /\ [][NextQuery]_vars

\* ------------------------------------------------------------------------
\* The ingestion buffer under any sequence of pushes
\* ------------------------------------------------------------------------

\* Buffer::default
BufferDefault ==
    /\ buffer = <<>>
    /\ length = 0

InitBuffer == BufferDefault /\ IntIdle /\ QueryIdle /\ EqIdle /\ PlanIdle /\ KernIdle /\ NamesIdle /\ TablesIdle /\ SchedIdle

PushRow == \E row \in Rows : push_row(row)

PushTypedCols == \E columns \in TypedMaps : push_typed_cols(columns)

PushUntypedCols == \E columns \in UntypedMaps : push_untyped_cols(columns)

NextBuffer == PushRow \/ PushTypedCols \/ PushUntypedCols

SpecBuffer == InitBuffer /\ [][NextBuffer]_vars

\* ------------------------------------------------------------------------
\* An integer column built and iterated
\* ------------------------------------------------------------------------

\* A non-empty vector of i64 with its true minimum and maximum, as the
\* column finalisation passes them.
InitInt ==
    /\ BufIdle
    /\ QueryIdle
    /\ EqIdle
    /\ PlanIdle
    /\ KernIdle
    /\ NamesIdle
    /\ TablesIdle
    /\ SchedIdle
    /\ ivalues \in SeqsOf(IntSamples, 1, MaxVals)
    /\ imin = SeqMin(ivalues)
    /\ imax = SeqMax(ivalues)
    /\ build \in {"debug", "release"}
    /\ icol = [kind |-> "none", values |-> <<>>, offset |-> 0]
    /\ idecoded = NotIterated

NewIntegerColumn ==
    /\ icol.kind = "none"
    /\ icol' = IntegerColumn_new(ivalues, imin, imax, build)
    /\ UNCHANGED <<ivalues, imin, imax, build, idecoded, bufVars, queryVars, eqVars, planVars, kernVars, namesVars, tableVars, schedVars>>

IterIntegerColumn ==
    /\ icol.kind \in {"u8", "u16", "u32", "i64"}
    /\ idecoded = NotIterated
    /\ idecoded' = ColumnData_iter(icol, build)
    /\ UNCHANGED <<ivalues, imin, imax, build, icol, bufVars, queryVars, eqVars, planVars, kernVars, namesVars, tableVars, schedVars>>

NextInt == NewIntegerColumn \/ IterIntegerColumn

SpecInt == InitInt /\ [][NextInt]_vars

\* ------------------------------------------------------------------------
\* EqualsVSU16 over a u16 code stream and a constant code
\* ------------------------------------------------------------------------

\* Longest code stream handed to EqualsVSU16.
MaxCodes == 2

\* u16 codes at both ends of the width.
CodeSamples == {0, 1, U16_MAX}

\* Constant codes the rhs operator may yield: codes of the width, and codes
\* that do not fit it.
ConstCodeSamples ==
    {I64_MIN, -(U16_MAX + 1), -1, 0, 1, U16_MAX, U16_MAX + 1, U16_MAX + 2,
     2 * U16_MAX + 1, I64_MAX}

InitEq ==
    /\ BufIdle
    /\ IntIdle
    /\ QueryIdle
    /\ PlanIdle
    /\ KernIdle
    /\ NamesIdle
    /\ TablesIdle
    /\ SchedIdle
    /\ eq_data \in SeqsOf(CodeSamples, 0, MaxCodes)
    /\ eq_rhs \in ConstCodeSamples
    /\ eq_result = NotExecuted

ExecEqualsVSU16 ==
    /\ eq_result = NotExecuted
    /\ eq_result' = <<"done", EqualsVSU16_execute(eq_data, eq_rhs)>>
    /\ UNCHANGED <<eq_data, eq_rhs, bufVars, intVars, queryVars, planVars, kernVars, namesVars, tableVars, schedVars>>

NextEq == ExecEqualsVSU16

SpecEq == InitEq /\ [][NextEq]_vars

\* ------------------------------------------------------------------------
\* create_query_plan and the prepared plan over one batch
\* ------------------------------------------------------------------------

\* Rows (num, name) of the batches: u8 columns with offset 0, with a positive
\* offset and over the whole code range, a u16 column, and a raw i64 column.
PlanRows ==
    {<<<<0, "b">>, <<1, "a">>, <<2, "b">>>>,
     <<<<5, "a">>, <<7, "a">>>>,
     <<<<0, "a">>, <<U8_MAX, "b">>>>,
     <<<<0, "b">>, <<300, "a">>>>,
     <<<<0, "a">>, <<U32_MAX + 1, "b">>>>}

PlanBatches == {BatchOf(rows) : rows \in PlanRows}

\* Integer constants: below, inside and above the value ranges of the columns.
IntConsts == {-1, 0, 1, 3, 6, 8, U8_MAX, U8_MAX + 1, 300, 301, U16_MAX + 1}

\* Predicates with a scalar right-hand side.
Predicates ==
    {Func("LT", ColName("num"), Const(IntVal(c))) : c \in IntConsts}
    \cup {Func("Equals", ColName("num"), Const(IntVal(c))) : c \in {0, 5, 300}}
    \cup {Func("Equals", ColName("name"), Const(StrVal(x))) : x \in {"a", "zz"}}

\* Expressions that are no well-typed predicate.
IllTyped ==
    {Func("LT", ColName("num"), Const(StrVal("a"))),
     Func("LT", ColName("name"), Const(StrVal("a"))),
     Func("Equals", ColName("num"), Const(StrVal("a"))),
     Func("Equals", ColName("name"), Const(IntVal(1))),
     Func("LT", ColName("num"), ColName("num")),
     Func("Equals", ColName("name"), ColName("name")),
     Func("And", ColName("num"), NameIsA),
     Func("Or", NameIsA, Const(IntVal(1)))}

\* Expressions over a column the batch does not have.
UnknownColumns ==
    {ColName("missing"),
     Func("LT", ColName("missing"), Const(IntVal(1))),
     Func("And", NameIsA, Func("Equals", ColName("missing"), Const(StrVal("a"))))}

PlanExprs ==
    {ColName("num"), ColName("name"), Const(IntVal(1)), Const(StrVal("a"))}
    \cup Predicates
    \cup {Func(f, NameIsA, p) : f \in {"And", "Or"}, p \in {NameIsA, NumLessThan1}}
    \cup IllTyped
    \cup UnknownColumns

\* Ambient filters over a batch of n rows.
PlanFilters(n) ==
    {FilterNone,
     FilterBitVec([i \in 1..n |-> i # 1]),
     FilterIndices(<<n - 1, 0>>)}

InitPlan ==
    /\ BufIdle
    /\ IntIdle
    /\ EqIdle
    /\ KernIdle
    /\ NamesIdle
    /\ TablesIdle
    /\ SchedIdle
    /\ batch \in PlanBatches
    /\ query = NoQuery
    /\ result = NoResult
    /\ plan_expr \in PlanExprs
    /\ plan_filter \in PlanFilters(Len(batch["num"].codes))
    /\ plan_out = NoPlan
    /\ plan_vec = NotRun

\* QueryPlan::create_query_plan(expr, columns, filter)
CreateQueryPlan ==
    /\ plan_out.plan.node = "None"
    /\ plan_out' = create_query_plan(plan_expr, batch, plan_filter)
    /\ UNCHANGED <<plan_expr, plan_filter, plan_vec, bufVars, intVars, queryVars, eqVars, kernVars, namesVars, tableVars, schedVars>>

\* query_plan::prepare(plan).execute()
ExecutePlan ==
    /\ plan_out.plan.node \notin {"None", "Panic"}
    /\ plan_vec.t = "none"
    /\ plan_vec' = execute(plan_out.plan, batch)
    /\ UNCHANGED <<plan_expr, plan_filter, plan_out, bufVars, intVars, queryVars, eqVars, kernVars, namesVars, tableVars, schedVars>>

NextPlan == CreateQueryPlan \/ ExecutePlan

SpecPlan == InitPlan /\ [][NextPlan]_vars

\* ------------------------------------------------------------------------
\* The comparison and Boolean kernels over their operand vectors
\* ------------------------------------------------------------------------

\* Longest operand vector of a kernel.
MaxOperand == 2

\* i64 and u8 operands at both ends of the width and around zero.
I64Samples == {I64_MIN, -1, 0, 1, I64_MAX}

U8Samples == {0, 1, U8_MAX}

BitVecs(n) == [1..n -> BOOLEAN]

ComparisonKernels ==
    {Kernel("LessThanVSi64", a, <<>>, <<>>, r) :
        a \in SeqsOf(I64Samples, 0, MaxOperand), r \in I64Samples}
    \cup {Kernel("LessThanVSu8", a, <<>>, <<>>, r) :
        a \in SeqsOf(U8Samples, 0, MaxOperand), r \in U8Samples}

BooleanKernels ==
    UNION {{Kernel(op, a, b, c, 0) :
               op \in {"And", "Or"}, a \in BitVecs(n), b \in BitVecs(n), c \in BitVecs(n)} :
           n \in 0..MaxOperand}

InitKernel ==
    /\ BufIdle
    /\ IntIdle
    /\ QueryIdle
    /\ EqIdle
    /\ PlanIdle
    /\ NamesIdle
    /\ TablesIdle
    /\ SchedIdle
    /\ (kern \in ComparisonKernels \/ kern \in BooleanKernels)
    /\ kout = NoOutput

\* LessThanVSi64::execute
ExecLessThanVSi64 ==
    /\ kern.op = "LessThanVSi64"
    /\ ~kout.done
    /\ kout' = [NoOutput EXCEPT !.done = TRUE,
                                !.bits = LessThanVSi64_execute(kern.a, kern.rhs)]
    /\ UNCHANGED <<kern, bufVars, intVars, queryVars, eqVars, planVars, namesVars, tableVars, schedVars>>

\* LessThanVSu8::execute
ExecLessThanVSu8 ==
    /\ kern.op = "LessThanVSu8"
    /\ ~kout.done
    /\ kout' = [NoOutput EXCEPT !.done = TRUE,
                                !.bits = LessThanVSu8_execute(kern.a, kern.rhs)]
    /\ UNCHANGED <<kern, bufVars, intVars, queryVars, eqVars, planVars, namesVars, tableVars, schedVars>>

\* The operator tree Boolean::and / Boolean::or of two operand operators.
BooleanOf(op, lhs, rhs) == BooleanOperator_execute(op, lhs, rhs)

\* BooleanOperator::execute over the operands a and b, over the operands
\* swapped, and over the three operands in both groupings.
ExecBoolean ==
    /\ kern.op \in {"And", "Or"}
    /\ ~kout.done
    /\ LET a == Vec("bitvec", kern.a, "")
           b == Vec("bitvec", kern.b, "")
           c == Vec("bitvec", kern.c, "")
       IN kout' = [done |-> TRUE,
                   bits |-> BooleanOf(kern.op, a, b).data,
                   ba |-> BooleanOf(kern.op, b, a).data,
                   ab_c |-> BooleanOf(kern.op, BooleanOf(kern.op, a, b), c).data,
                   a_bc |-> BooleanOf(kern.op, a, BooleanOf(kern.op, b, c)).data]
    /\ UNCHANGED <<kern, bufVars, intVars, queryVars, eqVars, planVars, namesVars, tableVars, schedVars>>

NextKernel == ExecLessThanVSi64 \/ ExecLessThanVSu8 \/ ExecBoolean

SpecKernel == InitKernel /\ [][NextKernel]_vars

\* ------------------------------------------------------------------------
\* engine::query::Query::result_column_names
\* ------------------------------------------------------------------------

\* Longest select list and longest aggregate list of a query.
MaxSelect == 3

MaxAggregates == 2

\* format!("{}{}", prefix, n)
format(prefix, n) == prefix \o ToString(n)

\* select_cols: the closure mapped over self.select, anon_columns being the
\* counter it captured (the last number handed out, -1 at the start).
RECURSIVE select_cols(_, _)
select_cols(select, anon_columns) ==
    IF select = <<>> THEN <<>>
    ELSE IF Head(select).e = "ColName"
    THEN <<Head(select).name>> \o select_cols(Tail(select), anon_columns)
    ELSE <<format("col_", anon_columns + 1)>> \o select_cols(Tail(select), anon_columns + 1)

\* aggregate_cols with a counter per aggregator kind.
RECURSIVE aggregate_cols_PerKind(_, _)
aggregate_cols_PerKind(aggregate, anon_aggregates) ==
    IF aggregate = <<>> THEN <<>>
    ELSE LET init == SubSeq(aggregate, 1, Len(aggregate) - 1)
             last == aggregate[Len(aggregate)]
             n == anon_aggregates
                  + Cardinality({i \in 1..Len(aggregate) : aggregate[i].agg = last.agg})
         IN aggregate_cols_PerKind(init, anon_aggregates)
            \o <<format(IF last.agg = "Count" THEN "count_" ELSE "sum_", n)>>

\* aggregate_cols: the closure mapped over self.aggregate, anon_aggregates
\* being the counter it captured.
RECURSIVE aggregate_cols(_, _)
aggregate_cols(aggregate, anon_aggregates) ==
    IF aggregate = <<>> THEN <<>>
    ELSE <<format(IF Head(aggregate).agg = "Count" THEN "count_" ELSE "sum_",
                  anon_aggregates + 1)>>
         \o aggregate_cols(Tail(aggregate), anon_aggregates + 1)

\* Query::result_column_names
result_column_names(q) == select_cols(q.select, -1) \o aggregate_cols(q.aggregate, -1)

\* Select expressions and aggregators of the queries.
SelectExprs == {ColName("num"), ColName("name"), Const(IntVal(1)), NumLessThan1}

Aggregates ==
    {[agg |-> "Count", expr |-> Const(IntVal(1))], [agg |-> "Sum", expr |-> ColName("num")]}

NamedQueries ==
    {[NoQuery EXCEPT !.select = sel, !.aggregate = agg] :
        sel \in SeqsOf(SelectExprs, 0, MaxSelect), agg \in SeqsOf(Aggregates, 0, MaxAggregates)}

InitNames ==
    /\ BufIdle
    /\ IntIdle
    /\ EqIdle
    /\ PlanIdle
    /\ KernIdle
    /\ TablesIdle
    /\ SchedIdle
    /\ batch = <<>>
    /\ query \in NamedQueries
    /\ result = NoResult
    /\ column_names = NotNamed

ResultColumnNames ==
    /\ ~column_names.done
    /\ column_names' = [done |-> TRUE, names |-> result_column_names(query)]
    /\ UNCHANGED <<bufVars, intVars, queryVars, eqVars, planVars, kernVars, tableVars, schedVars>>

NextNames == ResultColumnNames

SpecNames == InitNames /\ [][NextNames]_vars

\* ------------------------------------------------------------------------
\* scheduler::InnerRuba::ingest and create_if_empty under concurrent callers
\* ------------------------------------------------------------------------

\* Threads calling InnerRuba::ingest, and calls each of them makes.
NumIngesters == 2

MaxCalls == 2

Ingesters == 1..NumIngesters

\* A call ingest(table, row) in progress: pc is "check" (create_if_empty
\* reads contains_key), "insert" (it takes the write lock and inserts),
\* "get" (ingest takes the read lock, gets the table and ingests the row).
Frame(table, row, pc) == [table |-> table, row |-> row, pc |-> pc]

\* The row create_if_empty writes to _meta_tables for a new table.
MetaRow(table) == <<"name", table>>

\* The stack with the pc of its top frame changed.
WithTopPc(stack, pc) == [stack EXCEPT ![Len(stack)].pc = pc]

\* Table::ingest(row): the table holds one more row.
Table_ingest(tbls, table, row) == [tbls EXCEPT ![table] = Append(@, row)]

\* The variables InnerRuba::ingest leaves alone.
notTableVars ==
    <<bufVars, intVars, queryVars, eqVars, planVars, kernVars, namesVars, schedVars>>

InitTables ==
    /\ BufIdle
    /\ IntIdle
    /\ QueryIdle
    /\ EqIdle
    /\ PlanIdle
    /\ KernIdle
    /\ NamesIdle
    /\ SchedIdle
    /\ tables = <<>>
    /\ ingesting = [t \in Ingesters |-> [stack |-> <<>>, calls |-> 0]]
    /\ returned = {}

\* A thread enters InnerRuba::ingest("t", row).
CallIngest(t) ==
    /\ ingesting[t].stack = <<>>
    /\ ingesting[t].calls < MaxCalls
    /\ ingesting' = [ingesting EXCEPT
                        ![t].calls = @ + 1,
                        ![t].stack = <<Frame("t", <<t, ingesting[t].calls + 1>>, "check")>>]
    /\ UNCHANGED <<tables, returned, notTableVars>>

\* create_if_empty: `exists` is read under the read lock, which is released
\* before it is acted upon.
CheckExists(t) ==
    /\ ingesting[t].stack # <<>>
    /\ LET top == ingesting[t].stack[Len(ingesting[t].stack)]
       IN /\ top.pc = "check"
          /\ ingesting' = [ingesting EXCEPT
                ![t].stack = WithTopPc(@, IF top.table \in DOMAIN tables THEN "get"
                                          ELSE "insert")]
    /\ UNCHANGED <<tables, returned, notTableVars>>

\* create_if_empty, !exists: a new Table is inserted under the write lock,
\* then self.ingest("_meta_tables", ..) is entered.
InsertTable(t) ==
    /\ ingesting[t].stack # <<>>
    /\ LET top == ingesting[t].stack[Len(ingesting[t].stack)]
       IN /\ top.pc = "insert"
          /\ tables' = insert(tables, top.table, <<>>)
          /\ ingesting' = [ingesting EXCEPT
                ![t].stack = Append(WithTopPc(@, "get"),
                                    Frame("_meta_tables", MetaRow(top.table), "check"))]
    /\ UNCHANGED <<returned, notTableVars>>

\* ingest after create_if_empty: tables.get(table).unwrap().ingest(row),
\* and the call returns.
IngestRow(t) ==
    /\ ingesting[t].stack # <<>>
    /\ LET stack == ingesting[t].stack
           top == stack[Len(stack)]
       IN /\ top.pc = "get"
          /\ top.table \in DOMAIN tables
          /\ tables' = Table_ingest(tables, top.table, top.row)
          /\ ingesting' = [ingesting EXCEPT ![t].stack = SubSeq(stack, 1, Len(stack) - 1)]
          /\ returned' = IF Len(stack) = 1 THEN returned \cup {top.row} ELSE returned
    /\ UNCHANGED notTableVars

NextTables ==
    \E t \in Ingesters : CallIngest(t) \/ CheckExists(t) \/ InsertTable(t) \/ IngestRow(t)

SpecTables == InitTables /\ [][NextTables]_vars

\* ------------------------------------------------------------------------
\* scheduler::InnerRuba::schedule, await_task and worker_loop
\* ------------------------------------------------------------------------

\* Worker threads, and threads that call schedule once each.
NumWorkers == 2

NumCallers == 2

Workers == 1..NumWorkers

Callers == (NumWorkers + 1)..(NumWorkers + NumCallers)

\* A thread at pc, holding task (0: none).  A worker is at "await" (about to
\* lock idle_queue), "test" (holds the mutex, tests *task_available),
\* "waiting" (inside cvar.wait), "woken" (notified, re-locking the mutex),
\* "write" (about to lock task_queue), "pop" (in the pop loop) or "execute".
\* A caller is at "call", "s_lock", "s_write", "s_push" or "returned".
At(pc, task) == [pc |-> pc, task |-> task]

\* Arc<Task>: its id and whether task.multithreaded().
Task(id, multithreaded) == [id |-> id, multithreaded |-> multithreaded]

\* The variables the scheduler leaves alone.
notSchedVars ==
    <<bufVars, intVars, queryVars, eqVars, planVars, kernVars, namesVars, tableVars>>

\* cvar.wait(guard) that keeps the mutex while the thread waits.
cvar_wait_KeepLock(w) == w

\* cvar.wait(guard): the mutex is released while the thread waits; the value
\* is the holder of the mutex afterwards.
cvar_wait(w) == 0

\* The history of hand-outs counts up to here.
MaxHandouts == 2

\* await_task pushing every popped task back to the front.
push_front_Always(task, queue) == <<task>> \o queue

\* await_task: if task.multithreaded() { task_queue.push_front(task.clone()) },
\* on the queue left by pop_front.
push_front_if_multithreaded(task, queue) ==
    IF task.multithreaded THEN <<task>> \o queue ELSE queue

\* cvar.notify_one() that wakes no thread.
notify_one_Nobody(th) == {th}

\* cvar.notify_one(): the threads after one waiting thread, if there is
\* any, was woken.
notify_one(th) ==
    IF \E w \in Workers : th[w].pc = "waiting"
    THEN {[th EXCEPT ![w].pc = "woken"] : w \in {v \in Workers : th[v].pc = "waiting"}}
    ELSE {th}

InitSched ==
    /\ BufIdle
    /\ IntIdle
    /\ QueryIdle
    /\ EqIdle
    /\ PlanIdle
    /\ KernIdle
    /\ NamesIdle
    /\ TablesIdle
    /\ idle_lock = 0
    /\ task_available = FALSE
    /\ queue_lock = 0
    /\ task_queue = <<>>
    /\ thread = [t \in Workers \cup Callers |->
                    IF t \in Workers THEN At("await", 0) ELSE At("call", 0)]
    /\ completed = {}
    /\ handouts = [c \in Callers |-> 0]

\* await_task: lock.lock(), also when re-locking after a wake-up.
AwaitLock(w) ==
    /\ thread[w].pc \in {"await", "woken"}
    /\ idle_lock = 0
    /\ idle_lock' = w
    /\ thread' = [thread EXCEPT ![w].pc = "test"]
    /\ UNCHANGED <<task_available, queue_lock, task_queue, completed, handouts, notSchedVars>>

\* await_task: while !*task_available { cvar.wait(..) }
AwaitTest(w) ==
    /\ thread[w].pc = "test"
    /\ IF task_available
       THEN /\ thread' = [thread EXCEPT ![w].pc = "write"]
            /\ UNCHANGED idle_lock
       ELSE /\ thread' = [thread EXCEPT ![w].pc = "waiting"]
            /\ idle_lock' = cvar_wait(w)
    /\ UNCHANGED <<task_available, queue_lock, task_queue, completed, handouts, notSchedVars>>

\* Condvar::wait may return without a notification.
SpuriousWakeup(w) ==
    /\ thread[w].pc = "waiting"
    /\ thread' = [thread EXCEPT ![w].pc = "woken"]
    /\ UNCHANGED <<idle_lock, task_available, queue_lock, task_queue, completed,
                   handouts, notSchedVars>>

\* await_task: self.task_queue.write()
AwaitWrite(w) ==
    /\ thread[w].pc = "write"
    /\ queue_lock = 0
    /\ queue_lock' = w
    /\ thread' = [thread EXCEPT ![w].pc = "pop"]
    /\ UNCHANGED <<idle_lock, task_available, task_queue, completed, handouts, notSchedVars>>

\* await_task: one round of `while let Some(task) = task_queue.pop_front()`;
\* both guards are dropped when the function returns.
AwaitPop(w) ==
    /\ thread[w].pc = "pop"
    /\ IF task_queue = <<>>
       THEN /\ thread' = [thread EXCEPT ![w].pc = "await"]
            /\ idle_lock' = 0
            /\ queue_lock' = 0
            /\ UNCHANGED <<task_available, task_queue, handouts>>
       ELSE LET task == Head(task_queue)
                rest == push_front_if_multithreaded(task, Tail(task_queue))
            IN IF task.id \in completed
               THEN /\ task_queue' = Tail(task_queue)
                    /\ UNCHANGED <<thread, idle_lock, queue_lock, task_available, handouts>>
               ELSE /\ task_queue' = rest
                    /\ task_available' = (Len(rest) > 0)
                    /\ thread' \in
                          (IF Len(rest) > 0
                           THEN notify_one([thread EXCEPT ![w] = At("execute", task.id)])
                           ELSE {[thread EXCEPT ![w] = At("execute", task.id)]})
                    /\ handouts' = [handouts EXCEPT ![task.id] =
                                        IF @ < MaxHandouts THEN @ + 1 ELSE @]
                    /\ idle_lock' = 0
                    /\ queue_lock' = 0
    /\ UNCHANGED <<completed, notSchedVars>>

\* worker_loop: task.execute(); the task is complete afterwards, a
\* multithreaded one possibly only after a later execute.
Execute(w) ==
    /\ thread[w].pc = "execute"
    /\ \/ completed' = completed \cup {thread[w].task}
       \/ /\ \E i \in 1..Len(task_queue) : task_queue[i].id = thread[w].task
          /\ UNCHANGED completed
    /\ thread' = [thread EXCEPT ![w] = At("await", 0)]
    /\ UNCHANGED <<idle_lock, task_available, queue_lock, task_queue, handouts,
                   notSchedVars>>

\* A thread enters schedule(task).
ScheduleCall(c) ==
    /\ thread[c].pc = "call"
    /\ thread' = [thread EXCEPT ![c].pc = "s_lock"]
    /\ UNCHANGED <<idle_lock, task_available, queue_lock, task_queue, completed,
                   handouts, notSchedVars>>

\* schedule: lock.lock()
ScheduleLock(c) ==
    /\ thread[c].pc = "s_lock"
    /\ idle_lock = 0
    /\ idle_lock' = c
    /\ thread' = [thread EXCEPT ![c].pc = "s_write"]
    /\ UNCHANGED <<task_available, queue_lock, task_queue, completed, handouts, notSchedVars>>

\* schedule: self.task_queue.write()
ScheduleWrite(c) ==
    /\ thread[c].pc = "s_write"
    /\ queue_lock = 0
    /\ queue_lock' = c
    /\ thread' = [thread EXCEPT ![c].pc = "s_push"]
    /\ UNCHANGED <<idle_lock, task_available, task_queue, completed, handouts, notSchedVars>>

\* schedule: push_back, *task_available = true, notify_one; the guards are
\* dropped on return.
SchedulePush(c) ==
    /\ thread[c].pc = "s_push"
    /\ \E multithreaded \in BOOLEAN :
          task_queue' = Append(task_queue, Task(c, multithreaded))
    /\ task_available' = TRUE
    /\ thread' \in notify_one([thread EXCEPT ![c].pc = "returned"])
    /\ idle_lock' = 0
    /\ queue_lock' = 0
    /\ UNCHANGED <<completed, handouts, notSchedVars>>

WorkerStep(w) ==
    \/ AwaitLock(w)
    \/ AwaitTest(w)
    \/ SpuriousWakeup(w)
    \/ AwaitWrite(w)
    \/ AwaitPop(w)
    \/ Execute(w)

NextSched ==
    \/ \E w \in Workers : WorkerStep(w)
    \/ \E c \in Callers :
          ScheduleCall(c) \/ ScheduleLock(c) \/ ScheduleWrite(c) \/ SchedulePush(c)

\* Every thread keeps running, and a thread that finds a lock free again and
\* again gets it.
FairSched ==
    /\ \A w \in Workers : WF_vars(AwaitTest(w) \/ AwaitPop(w) \/ Execute(w))
    /\ \A w \in Workers : SF_vars(AwaitLock(w) \/ AwaitWrite(w))
    /\ \A c \in Callers : WF_vars(SchedulePush(c))
    /\ \A c \in Callers : SF_vars(ScheduleLock(c) \/ ScheduleWrite(c))

SpecSched == InitSched /\ [][NextSched]_vars /\ FairSched

\* Every multithreaded task that is handed out again and again is completed
\* by one of its executions.
TasksComplete ==
    \A w \in Workers : SF_vars(Execute(w) /\ completed' # completed)

SpecSchedLive == InitSched /\ [][NextSched]_vars /\ FairSched /\ TasksComplete

\* ------------------------------------------------------------------------
\* Claims
\* ------------------------------------------------------------------------

\* C1: after any sequence of push_row, push_typed_cols and push_untyped_cols
\* calls every column held by the buffer has exactly Buffer::len() values.
C1_ColumnsHaveLenValues ==
    \A n \in DOMAIN buffer : Len(buffer[n]) = length

OffsetKinds == {"u8", "u16", "u32"}

\* C2: an offset-integer column built from values with their true minimum and
\* maximum stores values[i] - min at every position, every code is at most
\* the MAX of the chosen width, iterating the column yields the values again,
\* and no conversion fails when the range fits the widest code type.
C2_OffsetRoundTrip ==
    /\ icol.kind \in OffsetKinds =>
          /\ Len(icol.values) = Len(ivalues)
          /\ icol.offset = imin
          /\ \A i \in 1..Len(ivalues) :
                /\ icol.values[i] = ivalues[i] - imin
                /\ 0 <= icol.values[i]
                /\ icol.values[i] <= MaxOf(icol.kind)
    /\ (icol.kind \in OffsetKinds /\ idecoded # NotIterated) =>
          /\ idecoded.ok
          /\ idecoded.values = ivalues
    /\ (icol.kind # "none" /\ imax - imin <= U32_MAX) => icol.kind \in OffsetKinds

\* C2 witness: a u16 column with a negative offset and two different values
\* was built and iterated.
C2_Witness ==
    /\ icol.kind = "u16"
    /\ imin < 0
    /\ Len(ivalues) = 2
    /\ ivalues[1] # ivalues[2]
    /\ idecoded.ok

\* C3: for min <= max whose difference is representable in i64 the column is
\* u8 iff max - min <= 255, u16 iff 255 < max - min <= 65535, u32 iff
\* 65535 < max - min <= u32::MAX, and the raw i64 column otherwise.
C3_NarrowestWidth ==
    (icol.kind # "none" /\ FitsI64(imax - imin)) =>
        /\ (icol.kind = "u8") <=> (imax - imin <= U8_MAX)
        /\ (icol.kind = "u16") <=> (U8_MAX < imax - imin /\ imax - imin <= U16_MAX)
        /\ (icol.kind = "u32") <=> (U16_MAX < imax - imin /\ imax - imin <= U32_MAX)
        /\ (icol.kind = "i64") <=> (U32_MAX < imax - imin)

\* C3 witness: the narrowest width at a threshold: a range of exactly
\* u16::MAX gave a u16 column.
C3_Witness ==
    /\ icol.kind = "u16"
    /\ imax - imin = U16_MAX

\* C4: whenever the mathematical range max - min exceeds u32::MAX, also when
\* it is not representable in i64, IntegerColumn::new returns the raw i64
\* column.
C4_WideRangeIsRaw ==
    (icol.kind # "none" /\ imax - imin > U32_MAX) => icol.kind = "i64"

\* ---- reference reading of a query over the rows of the batch ----

\* Number of rows of the batch.
NumRows == Len(batch["num"].codes)

\* The decoded value of row i (1-based) of column c.
RowValue(c, i) == DecodedData(batch[c])[i]

\* The sort rank of a value of column c.
RowRank(c, x) == RankOf(IF batch[c].basic = "String" THEN "str" ELSE "i64", x)

\* The vector the filter plan of the query evaluates to.
FilterPhase == execute(create_query_plan(query.filter, batch, FilterNone).plan, batch)

\* Row i (1-based) passes the filter: its bit is set in the bit-vector the
\* WHERE clause evaluates to; every row passes a filter that is no bit-vector.
RowPasses(i) == FilterPhase.t = "bitvec" => FilterPhase.data[i]

\* The rows (1-based) that pass the filter of the query.
PassingRows == {i \in 1..NumRows : RowPasses(i)}

\* The 0-based positions of the passing rows in the order of the ordering
\* column, equal values in row order.
ExpectedOrder ==
    LET c == query.select[query.order_by_index + 1].name
        passing == SelectBits([i \in 1..NumRows |-> i - 1],
                              [i \in 1..NumRows |-> RowPasses(i)])
    IN SortStable(passing, [i \in 1..NumRows |-> RowRank(c, RowValue(c, i))],
                  query.order_desc)

\* The values of select column k at the given 0-based row positions.
SelectedAt(k, idx) == AtIndices(DecodedData(batch[query.select[k].name]), idx)

\* Sum of s[lo..hi].
RECURSIVE SumRange(_, _, _)
SumRange(s, lo, hi) ==
    IF lo > hi THEN 0
    ELSE IF lo = hi THEN s[lo]
    ELSE LET mid == (lo + hi) \div 2
         IN SumRange(s, lo, mid) + SumRange(s, mid + 1, hi)

\* Query::run was called with an ordering column.
OrderedRun ==
    /\ result.status # "none"
    /\ query.aggregate = <<>>
    /\ query.order_by_index >= 0

\* Query::run_aggregate returned a BatchResult.
AggregateResult == result.status = "ok" /\ query.aggregate # <<>>

\* C5: in Query::run with an ordering column and a WHERE clause that
\* evaluates to a bit-vector, the index list is the row positions of the set
\* bits, none of them is out of range of the vector it is sorted against, and
\* the output is exactly the rows passing the filter in ascending
\* (descending when order_desc) order of the ordering column.
C5_FilteredRowsInOrder ==
    (OrderedRun /\ result.filter.kind = "BitVec") =>
        /\ result.status = "ok"
        /\ result.sort_indices = SetBitPositions(result.filter.bits)
        /\ InRange(result.sort_indices, result.sort_len)
        /\ \A k \in 1..Len(query.select) :
              result.select[k].data =
                  SelectedAt(k, truncate(ExpectedOrder, query.limit.limit + query.limit.offset))

\* C6: in Query::run with an ordering column every select column of the
\* BatchResult has exactly min(rows passing the filter, limit + offset) rows,
\* and all select columns list the same rows in the same order: the rows of
\* the truncated index list, which are distinct rows that pass the filter.
C6_TruncatedToLimitPlusOffset ==
    (OrderedRun /\ result.status = "ok") =>
        LET n == Min2(Cardinality(PassingRows), query.limit.limit + query.limit.offset)
        IN /\ Len(result.indices) = n
           /\ \A j \in 1..Len(result.indices) : result.indices[j] + 1 \in PassingRows
           /\ \A i, j \in 1..Len(result.indices) :
                 i # j => result.indices[i] # result.indices[j]
           /\ Len(result.select) = Len(query.select)
           /\ \A k \in 1..Len(result.select) :
                 /\ Len(result.select[k].data) = n
                 /\ result.select[k].data = SelectedAt(k, result.indices)

\* C6 witness: an ordered run under a bit-vector filter returned two select
\* columns, with an offset and more passing rows than limit + offset, so the
\* index list was cut.
C6_Witness ==
    /\ OrderedRun
    /\ result.status = "ok"
    /\ result.filter.kind = "BitVec"
    /\ Len(result.select) = 2
    /\ query.limit.offset = 1
    /\ Cardinality(PassingRows) > query.limit.limit + query.limit.offset
    /\ Len(result.select[1].data) = query.limit.limit + query.limit.offset

\* C7: for a COUNT query grouped by a single u8- or u16-encoded column of
\* cardinality K the counts of the result sum to the number of rows passing
\* the filter, and the result has at most K rows.
C7_CountsSumToPassingRows ==
    (/\ AggregateResult
     /\ query.aggregate[1].agg = "Count"
     /\ batch[query.select[1].name].enc \in {"u8", "u16"}) =>
        LET counts == result.select[1].data
        IN /\ SumRange(counts, 1, Len(counts)) = Cardinality(PassingRows)
           /\ Len(counts) <= cardinality(batch[query.select[1].name])
           /\ Len(result.group_by[1].data) = Len(counts)

\* C7 witness: a COUNT grouped by a u16 column under a bit-vector filter
\* that some rows pass and some do not.
C7_Witness ==
    /\ AggregateResult
    /\ query.aggregate[1].agg = "Count"
    /\ query.select[1].name = "num"
    /\ batch["num"].enc = "u16"
    /\ result.filter.kind = "BitVec"
    /\ PassingRows # {}
    /\ Cardinality(PassingRows) < NumRows

\* C8: in the result of Query::run_aggregate row i of the aggregate belongs
\* to the group key in row i, and the group keys are in ascending order of
\* their decoded values, also for dictionary-encoded string keys.
C8_GroupKeysAscending ==
    AggregateResult =>
        LET c == query.select[1].name
            keys == result.group_by[1].data
        IN /\ \A i \in 1..(Len(keys) - 1) : RowRank(c, keys[i]) <= RowRank(c, keys[i + 1])
           /\ query.aggregate[1].agg = "Count" =>
                 \A i \in 1..Len(keys) :
                    result.select[1].data[i] =
                        Cardinality({r \in PassingRows : RowValue(c, r) = keys[i]})

\* C9: in the filter phase of Query::run and Query::run_aggregate a plan
\* that evaluates to a bit-vector becomes Filter::BitVec, an absent WHERE
\* becomes Filter::None, and a plan that evaluates to anything else makes the
\* query fail with a fatal error and no BatchResult.
C9_FilterPhase ==
    result.status # "none" =>
        /\ FilterPhase.t = "bitvec" => result.filter.kind = "BitVec"
        /\ query.filter = NoWhere => result.filter.kind = "None"
        /\ (query.filter # NoWhere /\ FilterPhase.t \notin {"bitvec", "panic"}) =>
              result.status = "fatal"

\* C10: EqualsVSU16 with a constant code outside 0..=65535 returns an
\* all-false bit-vector.
C10_OutOfRangeMatchesNothing ==
    (eq_result # NotExecuted /\ eq_rhs \notin 0..U16_MAX) =>
        \A i \in 1..Len(eq_result[2]) : ~eq_result[2][i]

\* The prepared plan of plan_expr was executed.
PlanExecuted == plan_vec.t # "none"

\* plan_expr is `col < c` for an integer constant c.
IsLessThanConst(expr) ==
    /\ expr.e = "Func"
    /\ expr.f = "LT"
    /\ expr.lhs.e = "ColName"
    /\ expr.rhs.e = "Const"
    /\ expr.rhs.val.t = "Int"

\* C11: for an offset-encoded integer column and every constant c the
\* predicate `col < c` on the encoded path (EncodeIntConstant, then LessThanVS
\* at the code width) selects exactly the rows whose value is less than c.
C11_EncodedLessThanIsDecoded ==
    (/\ PlanExecuted
     /\ IsLessThanConst(plan_expr)
     /\ plan_filter.kind = "None"
     /\ plan_expr.lhs.name \in DOMAIN batch
     /\ has_codec(batch[plan_expr.lhs.name])) =>
        /\ plan_vec.t = "bitvec"
        /\ Len(plan_vec.data) = NumRows
        /\ \A i \in 1..NumRows :
              plan_vec.data[i] <=> (RowValue(plan_expr.lhs.name, i) < plan_expr.rhs.val.i)

\* C12: LessThanVS over N values and a scalar rhs, in the i64 and in the u8
\* kernel, returns a bit-vector of length N whose bit i is set iff
\* lhs[i] < rhs, in row order.
C12_LessThanBits ==
    (kout.done /\ kern.op \in {"LessThanVSi64", "LessThanVSu8"}) =>
        /\ Len(kout.bits) = Len(kern.a)
        /\ \A i \in 1..Len(kern.a) : kout.bits[i] <=> (kern.a[i] < kern.rhs)

\* C12 witness: the u8 kernel ran over a value equal to the rhs followed by a
\* smaller one.
C12_Witness ==
    /\ kout.done
    /\ kern.op = "LessThanVSu8"
    /\ Len(kern.a) = 2
    /\ kern.a[1] = kern.rhs
    /\ kern.a[2] < kern.rhs
    /\ kout.bits = <<FALSE, TRUE>>

\* C17: BooleanAnd / BooleanOr over bit-vectors of equal length N return a
\* bit-vector of length N with bit i = lhs[i] AND rhs[i] (resp. OR); swapping
\* the operands or regrouping three operands does not change the result.
C17_BooleanElementwise ==
    (kout.done /\ kern.op \in {"And", "Or"}) =>
        /\ Len(kout.bits) = Len(kern.a)
        /\ \A i \in 1..Len(kern.a) :
              kout.bits[i] <=> (IF kern.op = "And" THEN kern.a[i] /\ kern.b[i]
                                ELSE kern.a[i] \/ kern.b[i])
        /\ kout.ba = kout.bits
        /\ kout.ab_c = kout.a_bc
        /\ Len(kout.ab_c) = Len(kern.a)

\* C17 witness: BooleanAnd ran over three different bit-vectors of two bits
\* and neither step left its left operand unchanged.
C17_Witness ==
    /\ kout.done
    /\ kern.op = "And"
    /\ Len(kern.a) = 2
    /\ kern.a # kern.b
    /\ kern.b # kern.c
    /\ kout.bits # kern.a
    /\ kout.ab_c # kout.bits

\* create_query_plan returned (or panicked) for plan_expr.
PlanCreated == plan_out.plan.node # "None"

\* plan_expr is a reference to a column of the batch.
IsKnownColumn(expr) == expr.e = "ColName" /\ expr.name \in DOMAIN batch

\* The node the spec's table gives for (codec present?, filter kind).
ColumnNode(codec, kind) ==
    CASE ~codec /\ kind = "None" -> "GetDecode"
      [] ~codec /\ kind = "BitVec" -> "FilterDecode"
      [] ~codec /\ kind = "Indices" -> "IndexDecode"
      [] codec /\ kind = "None" -> "GetEncoded"
      [] codec /\ kind = "BitVec" -> "FilterEncoded"
      [] codec /\ kind = "Indices" -> "IndexEncoded"

\* C13: for a column reference create_query_plan emits exactly the node given
\* by (codec present?, ambient filter kind), over that column, carrying the
\* filter that was passed in.
C13_ColumnNodeByCodecAndFilter ==
    (PlanCreated /\ IsKnownColumn(plan_expr)) =>
        /\ plan_out.plan.node = ColumnNode(has_codec(batch[plan_expr.name]), plan_filter.kind)
        /\ plan_out.plan.col = plan_expr.name
        /\ IF plan_filter.kind = "None"
           THEN DOMAIN plan_out.plan = {"node", "col"}
           ELSE /\ DOMAIN plan_out.plan = {"node", "col", "filter"}
                /\ plan_out.plan.filter = plan_filter

\* C13 witness: a column without codec was planned under an index filter.
C13_Witness ==
    /\ PlanCreated
    /\ IsKnownColumn(plan_expr)
    /\ ~has_codec(batch[plan_expr.name])
    /\ plan_filter.kind = "Indices"
    /\ plan_out.plan.node = "IndexDecode"

\* plan_expr is `col < constant` or `col = constant` over a column of the
\* batch whose basic type is the constant's (`<`: integers only).
IsTypedComparison(expr) ==
    /\ expr.e = "Func"
    /\ expr.f \in {"LT", "Equals"}
    /\ IsKnownColumn(expr.lhs)
    /\ expr.rhs.e = "Const"
    /\ get_type(expr.rhs.val) = batch[expr.lhs.name].basic
    /\ expr.f = "LT" => get_type(expr.rhs.val) = "Integer"

\* C14: for `<` and `=` with a scalar right-hand side the constant is wrapped
\* in EncodeIntConstant / EncodeStrConstant with the codec of the left-hand
\* side exactly when that side is encoded, the comparison node is tagged
\* with the encoding type of the left-hand side, and the type is Boolean.
C14_ConstantEncodedIffLhsEncoded ==
    (PlanCreated /\ IsTypedComparison(plan_expr)) =>
        LET col == batch[plan_expr.lhs.name]
            constant == [node |-> "Constant", val |-> plan_expr.rhs.val]
        IN /\ plan_out.plan.node = (IF plan_expr.f = "LT" THEN "LessThanVS" ELSE "EqualsVS")
           /\ plan_out.plan.lhs.node = ColumnNode(has_codec(col), plan_filter.kind)
           /\ plan_out.plan.t = (IF has_codec(col) THEN col.enc ELSE BasicEncoding(col.basic))
           /\ IF has_codec(col)
              THEN plan_out.plan.rhs =
                      [node |-> (IF col.basic = "String" THEN "EncodeStrConstant"
                                 ELSE "EncodeIntConstant"),
                       plan |-> constant, codec |-> plan_expr.lhs.name]
              ELSE plan_out.plan.rhs = constant
           /\ plan_out.type.decoded = "Boolean"

\* C14 witness: an equality on a u16 column under a bit-vector filter got its
\* constant wrapped in EncodeIntConstant.
C14_Witness ==
    /\ PlanCreated
    /\ IsTypedComparison(plan_expr)
    /\ plan_expr.f = "Equals"
    /\ batch[plan_expr.lhs.name].enc = "u16"
    /\ plan_filter.kind = "BitVec"
    /\ plan_out.plan.rhs.node = "EncodeIntConstant"

\* The expression refers to a column the batch does not have.
RECURSIVE ReferencesUnknown(_)
ReferencesUnknown(expr) ==
    CASE expr.e = "ColName" -> expr.name \notin DOMAIN batch
      [] expr.e = "Func" -> ReferencesUnknown(expr.lhs) \/ ReferencesUnknown(expr.rhs)
      [] OTHER -> FALSE

\* C15: an expression over a column absent from the batch makes
\* create_query_plan return an UnknownColumn error value; nothing panics.
C15_UnknownColumnIsError ==
    (PlanCreated /\ ReferencesUnknown(plan_expr)) =>
        /\ plan_out.plan.node = "Error"
        /\ plan_out.plan.msg = "UnknownColumn"

\* C16: a comparison whose operands do not share a basic type, a comparison
\* whose right-hand side is no scalar, and an AND/OR over a non-Boolean
\* operand make create_query_plan return an error value instead of a plan or
\* a panic, and nothing is executed.
C16_TypeErrorIsError ==
    (PlanCreated /\ plan_expr \in IllTyped) =>
        /\ plan_out.plan.node = "Error"
        /\ plan_vec = NotRun

\* Number of expressions among the first n select expressions that are no
\* bare column reference.
AnonymousBefore(n) == Cardinality({i \in 1..n : query.select[i].e # "ColName"})

\* C18: result_column_names returns the select names followed by the
\* aggregate names: a bare column keeps its name, the k-th other select
\* expression (from 0) is col_k, and the n-th aggregator of the aggregate
\* list (from 0) is count_n or sum_n.
C18_ResultColumnNames ==
    column_names.done =>
        LET names == column_names.names
            ns == Len(query.select)
        IN /\ Len(names) = ns + Len(query.aggregate)
           /\ \A i \in 1..ns :
                 names[i] = (IF query.select[i].e = "ColName" THEN query.select[i].name
                             ELSE "col_" \o ToString(AnonymousBefore(i - 1)))
           /\ \A j \in 1..Len(query.aggregate) :
                 names[ns + j] = (IF query.aggregate[j].agg = "Count" THEN "count_"
                                  ELSE "sum_") \o ToString(j - 1)

\* C18 witness: a column, two other expressions, a count and then a sum were
\* named num, col_0, col_1, count_0, sum_1.
C18_Witness ==
    /\ column_names.done
    /\ column_names.names = <<"num", "col_0", "col_1", "count_0", "sum_1">>

\* The rows of a table, as a set.
RowsOf(table) == {tables[table][i] : i \in 1..Len(tables[table])}

\* C19: under any interleaving of concurrent ingest calls for one initially
\* absent table the table created by one call is never replaced by another
\* call's create_if_empty: every row whose ingest call has returned is in
\* the table.
C19_ReturnedRowsKept ==
    \A row \in returned : "t" \in DOMAIN tables /\ row \in RowsOf("t")

\* The threads that hold one of the two locks.
Threads == Workers \cup Callers

\* schedule and await_task take the idle_queue mutex before the task_queue
\* lock: whoever holds task_queue holds idle_queue.
MutexBeforeQueue == queue_lock # 0 => idle_lock = queue_lock

\* A worker inside cvar.wait, or notified and not yet holding the mutex
\* again, holds neither lock.
WaitingHoldsNoLock ==
    \A w \in Workers :
        thread[w].pc \in {"waiting", "woken"} => idle_lock # w /\ queue_lock # w

\* A worker inside task.execute() holds neither lock.
ExecutingHoldsNoLock ==
    \A w \in Workers :
        thread[w].pc = "execute" => idle_lock # w /\ queue_lock # w

\* No thread that holds a lock is blocked: it is past its lock() call, and
\* if its next step is task_queue.write() the task_queue lock is free.
HolderNotBlocked ==
    \A t \in Threads :
        idle_lock = t =>
            /\ thread[t].pc \in {"test", "write", "pop", "s_write", "s_push"}
            /\ thread[t].pc \in {"write", "s_write"} => queue_lock = 0

Queued == {task_queue[i].id : i \in 1..Len(task_queue)}

\* This step is await_task returning task t to a worker.
HandedOut(t) ==
    \E w \in Workers :
        /\ thread[w].pc = "pop"
        /\ thread'[w] = At("execute", t)

\* C21: a task that is not multithreaded is returned by await_task at most
\* once per schedule call: when it is handed out it was never handed out
\* before and it is no longer in the queue, and no other worker holds it.
\* A task that is completed when it is at the front of the queue is never
\* handed out: the worker in the pop loop removes it and keeps looping.
C21_HandedOutOnce ==
    [][(\A t \in Callers :
            HandedOut(t) =>
                /\ t \notin completed
                /\ (~Head(task_queue).multithreaded) =>
                      (/\ handouts[t] = 0
                       /\ handouts'[t] = 1
                       /\ t \notin {task_queue'[i].id : i \in 1..Len(task_queue')}
                       /\ \A v \in Workers : thread[v].task # t))
       /\ ((/\ task_queue # <<>>
            /\ Head(task_queue).id \in completed
            /\ \E w \in Workers :
                  /\ thread[w].pc = "pop"
                  /\ thread'[w] # thread[w] \/ task_queue' # task_queue)
           => (/\ task_queue' = Tail(task_queue)
               /\ handouts' = handouts
               /\ thread' = thread))]_vars

\* A worker executes a task that is not multithreaded (it was handed out
\* once and has left the queue) while the other worker is in the pop loop,
\* and a multithreaded task that completed was dropped from the queue.
C21_Witness ==
    /\ \E w \in Workers, c \in Callers :
          /\ thread[w] = At("execute", c)
          /\ c \notin Queued
          /\ c \notin completed
          /\ handouts[c] = 1
    /\ \E w \in Workers : thread[w].pc = "pop"
    /\ \E d \in Callers : d \in completed /\ d \notin Queued /\ handouts[d] = 2

\* No wake-up is lost: with neither scheduler lock held, a non-empty task
\* queue implies *task_available.
NoLostWakeup ==
    (idle_lock = 0 /\ queue_lock = 0 /\ task_queue # <<>>) => task_available

\* C22: every task passed to InnerRuba::schedule is eventually returned by
\* await_task to some worker or dropped as completed, under fair scheduling
\* and given that multithreaded tasks complete; and no wake-up is lost.
C22_EveryTaskHandedOut ==
    /\ []NoLostWakeup
    /\ \A c \in Callers :
          (c \in Queued) ~> (handouts[c] > 0 \/ (c \in completed /\ c \notin Queued))

\* Neither lock is held, a task is queued and task_available is set, a
\* notified worker is about to re-lock the mutex, and a task scheduled
\* earlier was handed out.
C22_Witness ==
    /\ idle_lock = 0
    /\ queue_lock = 0
    /\ \E c \in Callers : c \in Queued /\ handouts[c] = 0
    /\ task_available
    /\ \E w \in Workers : thread[w].pc = "woken"
    /\ \E c \in Callers : thread[c].pc = "returned" /\ handouts[c] > 0

\* C23: whenever neither scheduler lock is held, *task_available is true
\* only if the task queue is non-empty, so that a worker entering await_task
\* with nothing to run waits on the condition variable.
C23_AvailableOnlyIfQueued ==
    (idle_lock = 0 /\ queue_lock = 0 /\ task_available) => task_queue # <<>>

====
